---- MODULE Spec2Model ----
(***************************************************************************)
(* Video-Downloader: the download manager (core/downloader.py), the shell  *)
(* that wires it to the form (main.py) and the form's controls             *)
(* (ui/main_window.py).                                                    *)
(*                                                                         *)
(* One UI thread runs the handlers (a click, a close, the delivery of a    *)
(* queued signal) one at a time; each download runs _download_video on a   *)
(* thread of its own.  A signal emitted on the UI thread reaches its slots *)
(* at once; a signal emitted on a download thread is posted to the UI      *)
(* thread's event queue and handled there later, in order.                 *)
(*                                                                         *)
(* A text is a sequence of pieces (<<"Error: ", e>>), so that an f-string  *)
(* is the concatenation of its parts; <<>> is the empty text.              *)
(***************************************************************************)
EXTENDS Integers, Sequences, FiniteSets, TLC

VARIABLES
    form,             \* the form's input widgets, as the last click on "Start Download" found them
    ui,               \* the buttons, the labels and the progress bar
    stop_flag,        \* DownloadManager._stop_flag
    download_thread,  \* DownloadManager._download_thread: 0 (None) or an index of threads
    ydl_opts,         \* DownloadManager._ydl_opts
    threads,          \* the download threads that run or that _download_thread still refers to
    queue,            \* signals posted by download threads, not yet handled by the UI thread
    emitted,          \* the signals the last step emitted, in order
    ui_pc             \* the UI thread: "idle", "joining" (inside cleanup's join), "closed"

vars == <<form, ui, stop_flag, download_thread, ydl_opts, threads, queue, emitted, ui_pc>>

----------------------------------------------------------------------------
(* Bounds of the model. *)

\* Queued signals the UI thread may have left unhandled when one more download
\* is started or one more progress callback is made.
MaxPending == 3

----------------------------------------------------------------------------
(* Texts. *)

Digits == <<"0", "1", "2", "3", "4", "5", "6", "7", "8", "9">>

RECURSIVE Str(_)
\* str(n) of a natural number: its decimal digits.
Str(n) == IF n < 10 THEN <<Digits[n + 1]>>
          ELSE Str(n \div 10) \o <<Digits[(n % 10) + 1]>>

\* f"{n:02d}" of a natural number.
Pad2(n) == IF n < 10 THEN <<"0">> \o Str(n) ELSE Str(n)

RECURSIVE LStrip(_)
LStrip(t) == IF t # <<>> /\ Head(t) = " " THEN LStrip(Tail(t)) ELSE t

RECURSIVE RStrip(_)
RStrip(t) == IF t # <<>> /\ t[Len(t)] = " " THEN RStrip(SubSeq(t, 1, Len(t) - 1)) ELSE t

\* str.strip() of a text whose blank pieces are " ".
Strip(t) == RStrip(LStrip(t))

\* str.lower() of an entry of the audio-format or the container combo box.
Lower(s) == IF s = "Default" THEN "default" ELSE s

\* Python's None where a text may stand; no text a user types equals it.
PyNone == <<"<None>">>

----------------------------------------------------------------------------
(* The form. *)

CustomLabel == "Custom format code..."

FormatLabels == {"Best (video+audio)", "Best video only", "Best audio only",
                 "1440p", "1080p", "720p", "480p", "360p",
                 "Worst (video+audio)", CustomLabel}

AudioFormats == {"best", "aac", "alac", "flac", "m4a", "mp3", "opus", "vorbis", "wav"}

RemuxFormats == {"Default", "mp4", "mkv", "webm", "mov", "flv", "avi"}

\* playlist_check.setChecked(True)
PlaylistCheckDefault == TRUE

\* The widgets as MainWindowUI constructs them.
InitForm ==
    [url_input               |-> <<>>,
     format_combo            |-> "Best (video+audio)",
     custom_format_input     |-> <<>>,
     audio_format_combo      |-> "best",
     audio_quality_slider    |-> 5,
     remux_combo             |-> "Default",
     playlist_check          |-> PlaylistCheckDefault,
     output_path             |-> <<>>,
     subtitles_check         |-> FALSE,
     thumbnail_check         |-> FALSE,
     metadata_check          |-> FALSE,
     chapters_check          |-> FALSE,
     split_chapters_check    |-> FALSE,
     sponsorblock_check      |-> FALSE,
     sponsorblock_categories |-> <<>>]

----------------------------------------------------------------------------
(* The option mapper: DownloadManager._build_ydl_options. *)

EmptyDict == [k \in {} |-> FALSE]

\* d[k] = v on a dict: the key is added or its value replaced.
Put(d, k, v) == (k :> v) @@ d

Has(d, k) == k \in DOMAIN d

\* The truth value of a combo-box text.
Truthy(s) == s # ""

default_video_ext(options) ==
    IF Truthy(options.remux_format) /\ options.remux_format # "Default"
    THEN Lower(options.remux_format) ELSE "mp4"

default_audio_ext(options) ==
    IF Truthy(options.audio_format) THEN Lower(options.audio_format) ELSE "m4a"

audio_only_formats == {"Best audio only"}

BestExpr(v, a) ==
    <<"bestvideo[ext=", v, "]+bestaudio[ext=", a, "]/best[ext=", v, "]/best">>

HeightExpr(h, v, a) ==
    <<"bestvideo[height<=", h, "][ext=", v, "]+bestaudio[ext=", a,
      "]/best[height<=", h, "][ext=", v, "]">>

\* format_map.get(format_label, <the default expression>)
format_map(format_label, options) ==
    LET v == default_video_ext(options)
        a == default_audio_ext(options)
    IN  CASE format_label = "Best (video+audio)" -> BestExpr(v, a)
          [] format_label = "Best video only" -> <<"bestvideo[ext=", v, "]">>
          [] format_label = "Best audio only" -> <<"bestaudio[ext=", a, "]">>
          [] format_label = "1440p" -> HeightExpr("1440", v, a)
          [] format_label = "1080p" -> HeightExpr("1080", v, a)
          [] format_label = "720p" -> HeightExpr("720", v, a)
          [] format_label = "480p" -> HeightExpr("480", v, a)
          [] format_label = "360p" -> HeightExpr("360", v, a)
          [] format_label = "Worst (video+audio)" ->
                <<"worstvideo[ext=", v, "]+worstaudio[ext=", a, "]/worst[ext=", v, "]">>
          \* options.get('custom_format', default): the key is always in
          \* options, so the default is never taken.
          [] format_label = CustomLabel ->
                IF Has(options, "custom_format") THEN options.custom_format
                ELSE BestExpr(v, a)
          [] OTHER -> BestExpr(v, a)

\* os.path.join(output_path, '%(title)s.%(ext)s')
outtmpl(output_path) == output_path \o <<"/", "%(title)s.%(ext)s">>

base_opts(format_label, output_path, options) ==
    [format              |-> format_map(format_label, options),
     outtmpl             |-> outtmpl(output_path),
     progress_hooks      |-> <<"_progress_hook">>,
     quiet               |-> TRUE,
     no_warnings         |-> TRUE,
     ignoreerrors        |-> FALSE,
     restrictfilenames   |-> TRUE,
     merge_output_format |-> default_video_ext(options),
     postprocessors      |-> <<>>]

audio_opts(d, options) ==
    IF Truthy(options.audio_format)
    THEN Put(Put(d, "audioformat", options.audio_format),
             "audioquality", Str(options.audio_quality))
    ELSE d

ExtractAudio(options) ==
    [key              |-> "FFmpegExtractAudio",
     preferredcodec   |-> default_audio_ext(options),
     preferredquality |-> Str(options.audio_quality)]

VideoConvertor(options) ==
    [key |-> "FFmpegVideoConvertor", preferedformat |-> default_video_ext(options)]

postprocessor_opts(d, format_label, options) ==
    IF format_label \in audio_only_formats
    THEN Put(d, "postprocessors", Append(d.postprocessors, ExtractAudio(options)))
    ELSE Put(d, "postprocessors", Append(d.postprocessors, VideoConvertor(options)))

remux_opts(d, options) ==
    IF Truthy(options.remux_format) /\ options.remux_format # "Default"
    THEN Put(Put(d, "remuxvideo", options.remux_format), "postprocessors", <<>>)
    ELSE d

flag_opts(d, options) ==
    LET d1 == IF options.subtitles
              THEN Put(Put(Put(d, "writesubtitles", TRUE), "subtitleslangs", <<"all">>),
                       "embedsubtitles", TRUE)
              ELSE d
        d2 == IF options.thumbnail
              THEN Put(Put(d1, "writethumbnail", TRUE), "embedthumbnail", TRUE)
              ELSE d1
        d3 == IF options.metadata THEN Put(d2, "addmetadata", TRUE) ELSE d2
        d4 == IF options.chapters THEN Put(d3, "embedchapters", TRUE) ELSE d3
    IN  IF options.split_chapters THEN Put(d4, "splitchapters", TRUE) ELSE d4

playlist_opts_inverted(d, options) ==
    IF options.playlist THEN Put(d, "noplaylist", TRUE) ELSE Put(d, "noplaylist", FALSE)

playlist_opts(d, options) ==
    IF options.playlist THEN Put(d, "noplaylist", FALSE) ELSE Put(d, "noplaylist", TRUE)

sponsorblock_opts(d, options) ==
    IF options.sponsorblock
    THEN Put(d, "sponsorblock_remove",
             IF Has(options, "sponsorblock_categories")
             THEN options.sponsorblock_categories ELSE <<"all">>)
    ELSE d

build_ydl_options(format_label, output_path, options) ==
    LET d0 == base_opts(format_label, output_path, options)
        d1 == audio_opts(d0, options)
        d2 == postprocessor_opts(d1, format_label, options)
        d3 == remux_opts(d2, options)
        d4 == flag_opts(d3, options)
        d5 == playlist_opts(d4, options)
    IN  sponsorblock_opts(d5, options)

----------------------------------------------------------------------------
(* The signals of DownloadManager.  by is the thread that emits: 0 is the  *)
(* UI thread, i > 0 is threads[i].                                         *)

progress_updated(by, value) == [sig |-> "progress_updated", by |-> by, value |-> value]

status_updated(by, text) == [sig |-> "status_updated", by |-> by, text |-> text]

speed_updated(by, text) == [sig |-> "speed_updated", by |-> by, text |-> text]

eta_updated(by, text) == [sig |-> "eta_updated", by |-> by, text |-> text]

download_complete(by, success, message) ==
    [sig |-> "download_complete", by |-> by, success |-> success, message |-> message]

download_stopped(by) == [sig |-> "download_stopped", by |-> by]

----------------------------------------------------------------------------
(* The controls and the shell's slots. *)

\* A constructed QProgressBar has no value yet.
ProgressBarUnset == -1

InitUi ==
    [download_button |-> TRUE,
     stop_button     |-> FALSE,
     url_input       |-> TRUE,
     format_combo    |-> TRUE,
     status_label    |-> <<"Ready">>,
     progress_bar    |-> ProgressBarUnset,
     speed_label     |-> <<"Speed: -">>,
     eta_label       |-> <<"ETA: -">>]

set_download_state(u, enabled) ==
    [u EXCEPT !.download_button = enabled,
              !.stop_button = ~enabled,
              !.url_input = enabled,
              !.format_combo = enabled]

reset_progress(u) ==
    [u EXCEPT !.progress_bar = 0,
              !.speed_label = <<"Speed: -">>,
              !.eta_label = <<"ETA: -">>]

update_progress(u, value) == [u EXCEPT !.progress_bar = value]

on_download_complete(u, success, message) ==
    LET u1 == set_download_state(u, TRUE)
    IN  IF ~success THEN [u1 EXCEPT !.status_label = <<"Error: ">> \o message]
        ELSE u1

on_download_stopped(u) ==
    [set_download_state(u, TRUE) EXCEPT !.status_label = <<"Download stopped">>]

\* The slot _connect_signals connects to the signal m, run on the controls u.
Slot(u, m) ==
    CASE m.sig = "progress_updated" -> update_progress(u, m.value)
      [] m.sig = "status_updated" -> [u EXCEPT !.status_label = m.text]
      [] m.sig = "speed_updated" -> [u EXCEPT !.speed_label = m.text]
      [] m.sig = "eta_updated" -> [u EXCEPT !.eta_label = m.text]
      [] m.sig = "download_complete" -> on_download_complete(u, m.success, m.message)
      [] m.sig = "download_stopped" -> on_download_stopped(u)

RECURSIVE Slots(_, _)
\* Signals emitted on the UI thread run their slots at once, in order.
Slots(u, sigs) == IF sigs = <<>> THEN u ELSE Slots(Slot(u, Head(sigs)), Tail(sigs))

----------------------------------------------------------------------------
(* The download threads. *)

Threads == 1..Len(threads)

\* threading.Thread.is_alive(): from start() until _download_video has returned.
Alive(i) == threads[i].pc # "dead"

AliveThreads == {i \in Threads : Alive(i)}

\* The engine call (extract_info or download) of thread i is on the stack.
InEngine(i) == threads[i].pc \in {"extract", "download"}

BusyNever == FALSE

\* self._download_thread and self._download_thread.is_alive()
Busy == download_thread # 0 /\ Alive(download_thread)

----------------------------------------------------------------------------
(* DownloadManager.start_download, stop_download, cleanup (UI thread). *)

\* The threads left once _download_thread is assigned anew: the Thread object
\* it referred to is dropped, a thread that still runs stays.
Referenced == SelectSeq(threads, LAMBDA t : t.pc # "dead")

AlreadyInProgress == <<"A download is already in progress">>

start_refused_resets_flag(u) ==
    /\ emitted' = <<status_updated(0, AlreadyInProgress)>>
    /\ ui' = Slots(u, emitted')
    /\ stop_flag' = FALSE
    /\ UNCHANGED <<ydl_opts, download_thread, threads, queue>>

start_refused(u) ==
    /\ emitted' = <<status_updated(0, AlreadyInProgress)>>
    /\ ui' = Slots(u, emitted')
    /\ UNCHANGED <<stop_flag, ydl_opts, download_thread, threads, queue>>

start_accepted(u, url, format_label, output_path, options) ==
    /\ stop_flag' = FALSE
    /\ ydl_opts' = build_ydl_options(format_label, output_path, options)
    /\ threads' = Append(Referenced, [pc |-> "started", url |-> url])
    /\ download_thread' = Len(Referenced) + 1
    /\ emitted' = <<>>
    /\ ui' = u
    /\ UNCHANGED queue

start_download(u, url, format_label, output_path, options) ==
    IF Busy THEN start_refused(u)
    ELSE start_accepted(u, url, format_label, output_path, options)

stop_download_flag_only(u) ==
    /\ stop_flag' = TRUE
    /\ emitted' = <<status_updated(0, <<"Stopping download...">>)>>
    /\ ui' = Slots(u, emitted')

stop_download(u) ==
    /\ stop_flag' = TRUE
    /\ emitted' = <<status_updated(0, <<"Stopping download...">>), download_stopped(0)>>
    /\ ui' = Slots(u, emitted')

----------------------------------------------------------------------------
(* The shell: YTDLPGUI.start_download, the stop button, closeEvent, and    *)
(* the delivery of queued signals.                                         *)

\* The options dict start_download reads off the widgets.
options_of(f) ==
    [custom_format  |-> IF f.format_combo = CustomLabel THEN f.custom_format_input
                        ELSE PyNone,
     audio_format   |-> f.audio_format_combo,
     audio_quality  |-> f.audio_quality_slider,
     remux_format   |-> f.remux_combo,
     subtitles      |-> f.subtitles_check,
     thumbnail      |-> f.thumbnail_check,
     metadata       |-> f.metadata_check,
     chapters       |-> f.chapters_check,
     split_chapters |-> f.split_chapters_check,
     playlist       |-> f.playlist_check,
     sponsorblock   |-> f.sponsorblock_check,
     sponsorblock_categories |->
         IF Strip(f.sponsorblock_categories) # <<>> THEN Strip(f.sponsorblock_categories)
         ELSE <<"all">>]

\* self.ui.output_path.text() or os.path.expanduser("~/Downloads")
output_path_of(f) == IF f.output_path # <<>> THEN f.output_path ELSE <<"~/Downloads">>

\* The click on "Start Download", with the widgets in the states f the user's
\* edits have left them in (no handler runs on an edit): YTDLPGUI.start_download.
StartClick(f) ==
    /\ ui_pc = "idle"
    /\ ui.download_button
    /\ Strip(f.url_input) = <<>> \/ Busy \/ Len(queue) <= MaxPending
    /\ form' = f
    /\ UNCHANGED ui_pc
    /\ LET url == Strip(f.url_input)
       IN  IF url = <<>>
           THEN /\ ui' = [ui EXCEPT !.status_label = <<"Please enter a URL">>]
                /\ emitted' = <<>>
                /\ UNCHANGED <<stop_flag, ydl_opts, download_thread, threads, queue>>
           ELSE start_download(reset_progress(set_download_state(ui, FALSE)), url,
                               f.format_combo, output_path_of(f), options_of(f))

\* The click on "Stop": DownloadManager.stop_download.
StopClick ==
    /\ ui_pc = "idle"
    /\ ui.stop_button
    /\ stop_download(ui)
    /\ UNCHANGED <<form, download_thread, ydl_opts, threads, queue, ui_pc>>

\* The UI thread's event loop handles the oldest queued signal.
Deliver ==
    /\ ui_pc = "idle"
    /\ queue # <<>>
    /\ ui' = Slot(ui, Head(queue))
    /\ queue' = Tail(queue)
    /\ emitted' = <<>>
    /\ UNCHANGED <<form, stop_flag, download_thread, ydl_opts, threads, ui_pc>>

\* closeEvent: cleanup() up to the join.
CloseWindow ==
    /\ ui_pc = "idle"
    /\ UNCHANGED <<form, download_thread, ydl_opts, threads, queue>>
    /\ IF Busy
       THEN /\ stop_download(ui)
            /\ ui_pc' = "joining"
       ELSE /\ ui_pc' = "closed"
            /\ emitted' = <<>>
            /\ UNCHANGED <<ui, stop_flag>>

JoinNeverTimesOut == FALSE

\* The timeout of join(timeout=2) passes, whatever the thread does.
JoinTimesOut == TRUE

\* join(timeout=2) returns: the thread has ended, or the two seconds have passed.
JoinReturns ==
    /\ ui_pc = "joining"
    /\ ~Busy \/ JoinTimesOut
    /\ ui_pc' = "closed"
    /\ emitted' = <<>>
    /\ UNCHANGED <<form, ui, stop_flag, download_thread, ydl_opts, threads, queue>>

----------------------------------------------------------------------------
(* The engine, as far as _download_video and _progress_hook see it. *)

\* What extract_info returns: a dict with a title, or one without.
Infos == {[id |-> "1", title |-> <<"clip">>], [id |-> "2"]}

\* str(e) of an exception the engine raises.
EngineErrors == {<<"ERROR: unable to download">>}

\* The dicts the engine hands to the progress hook; 0 stands for a missing
\* or None entry, which the hook's .get() tests treat alike.
ProgressEvents ==
    {[status |-> "downloading", downloaded_bytes |-> 50, total_bytes |-> 100,
      speed |-> 2048, eta |-> 75],
     [status |-> "finished", downloaded_bytes |-> 100, total_bytes |-> 100,
      speed |-> 0, eta |-> 0]}

\* info.get('title', 'video')
TitleOf(info) == IF "title" \in DOMAIN info THEN info.title ELSE <<"video">>

\* ydl.prepare_filename(info): the engine's name for the output file.
prepare_filename(info) == <<"file:">> \o TitleOf(info)

\* n / d rounded to the nearest integer, ties to even (the rounding of .1f).
RoundDiv(n, d) ==
    LET q == n \div d
        r == n % d
    IN  IF 2 * r < d THEN q
        ELSE IF 2 * r > d THEN q + 1
        ELSE IF q % 2 = 0 THEN q ELSE q + 1

\* f"{x:.1f}" of x = tenths / 10, followed by a unit.
Fixed1(tenths, unit) == Str(tenths \div 10) \o <<".">> \o Str(tenths % 10) \o <<unit>>

KiB == 1024

format_speed(speed) ==
    IF speed < KiB THEN Fixed1(speed * 10, " B/s")
    ELSE IF speed < KiB * KiB THEN Fixed1(RoundDiv(speed * 10, KiB), " KB/s")
    ELSE Fixed1(RoundDiv(speed * 10, KiB * KiB), " MB/s")

format_eta(seconds) ==
    IF seconds < 0 THEN <<"--:--">>
    ELSE LET minutes0 == seconds \div 60
             secs     == seconds % 60
             hours    == minutes0 \div 60
             minutes  == minutes0 % 60
         IN  IF hours > 0 THEN Str(hours) \o <<":">> \o Pad2(minutes) \o <<":">> \o Pad2(secs)
             ELSE Pad2(minutes) \o <<":">> \o Pad2(secs)

\* int(downloaded_bytes / total_bytes * 100)
Percent(p) == (p.downloaded_bytes * 100) \div p.total_bytes

\* What _progress_hook emits for the dict p when the flag is clear.
progress_signals(i, p) ==
    IF p.status = "downloading"
    THEN (IF p.total_bytes # 0 THEN <<progress_updated(i, Percent(p))>> ELSE <<>>)
         \o (IF p.speed # 0
             THEN <<speed_updated(i, <<"Speed: ">> \o format_speed(p.speed))>> ELSE <<>>)
         \o (IF p.eta # 0
             THEN <<eta_updated(i, <<"ETA: ">> \o format_eta(p.eta))>> ELSE <<>>)
    ELSE <<>>

----------------------------------------------------------------------------
(* _download_video on thread i.  pc: "started", "extract" (inside          *)
(* extract_info), "download" (inside ydl.download), "exiting" (the last    *)
(* signal is emitted, the function has not returned yet), "dead".          *)

\* A signal emitted on a download thread is queued for the UI thread.
Post(sigs) ==
    /\ queue' = queue \o sigs
    /\ emitted' = sigs

\* Thread i after an exception e has ended the try block.
Caught(i, e) == [pc |-> "exiting", url |-> threads[i].url, exc |-> e]

exception_escapes(i, e) ==
    /\ queue' = queue
    /\ emitted' = <<>>
    /\ threads' = [threads EXCEPT ![i] = Caught(i, e)]

\* except Exception as e: of _download_video.
handle_exception(i, e) ==
    /\ Post(<<status_updated(i, <<"Error: ">> \o e), download_complete(i, FALSE, e)>>)
    /\ threads' = [threads EXCEPT ![i] = Caught(i, e)]

workerFrame == <<form, ui, stop_flag, download_thread, ydl_opts, ui_pc>>

W_Prepare(i) ==
    /\ ui_pc # "closed"
    /\ threads[i].pc = "started"
    /\ Post(<<status_updated(i, <<"Preparing download...">>)>>)
    /\ threads' = [threads EXCEPT ![i].pc = "extract"]
    /\ UNCHANGED workerFrame

W_ExtractInfo(i, info) ==
    /\ ui_pc # "closed"
    /\ threads[i].pc = "extract"
    /\ Post(<<status_updated(i, <<"Downloading: ">> \o TitleOf(info))>>)
    /\ threads' = [threads EXCEPT ![i] = [pc |-> "download", url |-> threads[i].url,
                                           info |-> info]]
    /\ UNCHANGED workerFrame

\* extract_info returns nothing: raise Exception("Failed to extract video info").
W_ExtractNothing(i) ==
    /\ ui_pc # "closed"
    /\ threads[i].pc = "extract"
    /\ handle_exception(i, <<"Failed to extract video info">>)
    /\ UNCHANGED workerFrame

\* The engine raises, in extract_info or in download.
W_EngineError(i, e) ==
    /\ ui_pc # "closed"
    /\ InEngine(i)
    /\ handle_exception(i, e)
    /\ UNCHANGED workerFrame

W_ProgressHook_ignores_flag(i, p) ==
    /\ ui_pc # "closed"
    /\ threads[i].pc = "download"
    /\ Len(queue) < MaxPending
    /\ Post(progress_signals(i, p))
    /\ UNCHANGED threads
    /\ UNCHANGED workerFrame

\* The engine calls _progress_hook(p) from inside download.
W_ProgressHook(i, p) ==
    /\ ui_pc # "closed"
    /\ threads[i].pc = "download"
    /\ IF stop_flag
       THEN handle_exception(i, <<"Download stopped by user">>)
       ELSE /\ Len(queue) < MaxPending
            /\ Post(progress_signals(i, p))
            /\ UNCHANGED threads
    /\ UNCHANGED workerFrame

\* ydl.download returns; the lines after it.
W_DownloadReturns(i) ==
    /\ ui_pc # "closed"
    /\ threads[i].pc = "download"
    /\ IF stop_flag
       THEN Post(<<status_updated(i, <<"Download cancelled">>), download_stopped(i)>>)
       ELSE Post(<<status_updated(i, <<"Download complete">>),
                   download_complete(i, TRUE, prepare_filename(threads[i].info))>>)
    /\ threads' = [threads EXCEPT ![i] = [pc |-> "exiting", url |-> threads[i].url]]
    /\ UNCHANGED workerFrame

\* _download_video returns and the thread ends; its locals are gone.
W_Exit(i) ==
    /\ ui_pc # "closed"
    /\ threads[i].pc = "exiting"
    /\ threads' = [threads EXCEPT ![i] = [pc |-> "dead", url |-> threads[i].url]]
    /\ emitted' = <<>>
    /\ UNCHANGED <<queue, workerFrame>>

----------------------------------------------------------------------------
(* The program. *)

Url1 == <<"https://v/1">>

\* The states of the widgets at a click: as constructed (no URL yet), with a
\* URL typed, and with the playlist box changed as well.
SpecForms ==
    {InitForm,
     [InitForm EXCEPT !.url_input = Url1],
     [InitForm EXCEPT !.url_input = Url1, !.playlist_check = ~PlaylistCheckDefault]}

Init ==
    /\ form = InitForm
    /\ ui = InitUi
    /\ stop_flag = FALSE
    /\ download_thread = 0
    /\ ydl_opts = EmptyDict
    /\ threads = <<>>
    /\ queue = <<>>
    /\ emitted = <<>>
    /\ ui_pc = "idle"

Next ==
    \/ \E f \in SpecForms : StartClick(f)
    \/ StopClick
    \/ Deliver
    \/ CloseWindow
    \/ JoinReturns
    \/ \E i \in Threads : W_Prepare(i)
    \/ \E i \in Threads, info \in Infos : W_ExtractInfo(i, info)
    \/ \E i \in Threads : W_ExtractNothing(i)
    \/ \E i \in Threads, e \in EngineErrors : W_EngineError(i, e)
    \/ \E i \in Threads, p \in ProgressEvents : W_ProgressHook(i, p)
    \/ \E i \in Threads : W_DownloadReturns(i)
    \/ \E i \in Threads : W_Exit(i)

Spec == Init /\ [][Next]_vars

\* The join's timeout is the one step the code itself guarantees to happen:
\* the engine may block for ever, and the user need not act.
FairSpec == Spec /\ WF_vars(JoinReturns)

----------------------------------------------------------------------------
(* The option mapper on its own: the form in any of the states the user    *)
(* can edit it into, then one click on "Start Download".                   *)

CustomTexts == {<<>>, <<"bestvideo[height<=1080]+bestaudio/best">>}

SponsorTexts == {<<>>, <<"sponsor,intro">>}

MapperForm(url, label, custom, audio, quality, remux, flags, sponsor) ==
    [InitForm EXCEPT !.url_input = url,
                     !.format_combo = label,
                     !.custom_format_input = custom,
                     !.audio_format_combo = audio,
                     !.audio_quality_slider = quality,
                     !.remux_combo = remux,
                     !.playlist_check = flags[1],
                     !.subtitles_check = flags[2],
                     !.thumbnail_check = flags[3],
                     !.metadata_check = flags[3],
                     !.chapters_check = flags[3],
                     !.split_chapters_check = flags[3],
                     !.sponsorblock_check = flags[4],
                     !.sponsorblock_categories = sponsor]

MapperForms ==
    {MapperForm(url, label, custom, audio, quality, remux, flags, sponsor) :
        url \in {Url1, <<" ">> \o Url1}, label \in FormatLabels, custom \in CustomTexts,
        audio \in {"best", "mp3", "m4a"}, quality \in {5, 10},
        remux \in {"Default", "mp4", "mkv"},
        flags \in BOOLEAN \X BOOLEAN \X BOOLEAN \X BOOLEAN,
        sponsor \in SponsorTexts}

MapperInit ==
    /\ form \in MapperForms
    /\ ui = InitUi
    /\ stop_flag = FALSE
    /\ download_thread = 0
    /\ ydl_opts = EmptyDict
    /\ threads = <<>>
    /\ queue = <<>>
    /\ emitted = <<>>
    /\ ui_pc = "idle"

\* The click finds the widgets as they are.
MapperNext == StartClick(form)

MapperSpec == MapperInit /\ [][MapperNext]_vars

----------------------------------------------------------------------------
(* Properties. *)

\* The signals the last step emitted.
Emitted == {emitted[k] : k \in 1..Len(emitted)}

Refusal == status_updated(0, AlreadyInProgress)

\* A click on "Start Download" with a URL, made while a download thread is alive.
RefusedStart == Busy /\ \E f \in SpecForms : Strip(f.url_input) # <<>> /\ StartClick(f)

\* The UI thread handles the queued signal m in this step.
Delivers(m) == queue # <<>> /\ Head(queue) = m /\ queue' = Tail(queue)

\* The options the form, as the last click found it, maps to.
FormOptions == build_ydl_options(form.format_combo, output_path_of(form), options_of(form))

\* C1: at most one download thread is alive in every reachable state, so a
\* Start issued while one is alive never launches a second.
C1_SingleFlight == Cardinality(AliveThreads) <= 1

\* A Start has just been refused while the one download thread runs.
C1_Witness == emitted = <<Refusal>> /\ Cardinality(AliveThreads) = 1

\* C2: a Start issued while a download is in flight leaves the cancellation
\* flag, the configuration snapshot, the thread reference and the thread
\* itself as they were, queues nothing, and emits the refusal status and
\* nothing else.
C2_RefusedStartFrame ==
    [][RefusedStart =>
          /\ UNCHANGED <<stop_flag, ydl_opts, download_thread, threads, queue>>
          /\ emitted' = <<Refusal>>]_vars

\* A refused Start whose form differs from the running request's, refused
\* after a Cancel: the flag is still set, the snapshot is still the first one.
C2_Witness ==
    /\ emitted = <<Refusal>>
    /\ Busy
    /\ stop_flag
    /\ ydl_opts # FormOptions

\* What str(e) is when the engine itself has failed.
EngineFailureTexts == EngineErrors \cup {<<"Failed to extract video info">>}

\* C3: once Cancel has been requested for a running download (the flag is set,
\* and only an accepted Start clears it), that download emits no
\* download_complete, neither success nor failure.  Stated for the downloads
\* whose engine call does not itself fail, where cancellation is the only
\* outcome there is to report.
C3_NoCompleteAfterCancel ==
    \A m \in Emitted :
        (m.sig = "download_complete" /\ stop_flag)
        => (~m.success /\ m.message \in EngineFailureTexts)

\* C4: a click on Stop while a download runs has download_stopped emitted and
\* handled by the shell in the same step; the start control is then enabled
\* and the stop control disabled.
C4_CancelYieldsStopped ==
    [][(Busy /\ StopClick) =>
          /\ \E k \in 1..Len(emitted') : emitted'[k] = download_stopped(0)
          /\ ui'.status_label = <<"Download stopped">>
          /\ ui'.download_button
          /\ ~ui'.stop_button]_vars

\* A running download has just been cancelled and the controls are back.
C4_Witness ==
    /\ Busy
    /\ stop_flag
    /\ download_stopped(0) \in Emitted
    /\ ui.download_button
    /\ ~ui.stop_button

\* C5: an exception that ends the try block of a download thread is turned
\* into exactly the status "Error: <text>" and one download_complete(False,
\* <text>), queued for the UI thread; the thread goes on to return (it never
\* dies inside the engine call); and the delivery of a failure notification
\* enables the start control and disables the stop control.
C5_FailureNotified ==
    [][/\ \A i \in Threads :
            (/\ InEngine(i)
             /\ i \in DOMAIN threads'
             /\ threads'[i].pc = "exiting"
             /\ "exc" \in DOMAIN threads'[i])
            => /\ emitted' = <<status_updated(i, <<"Error: ">> \o threads'[i].exc),
                               download_complete(i, FALSE, threads'[i].exc)>>
               /\ queue' = queue \o emitted'
       /\ \A i \in Threads :
            InEngine(i) => i \in DOMAIN threads' /\ threads'[i].pc # "dead"
       /\ \A e \in EngineErrors, i \in Threads :
            Delivers(download_complete(i, FALSE, e))
            => ui'.download_button /\ ~ui'.stop_button]_vars

\* The failure notification of an engine error has been handled: the start
\* control is enabled.
C5_Witness ==
    /\ \E e \in EngineErrors : ui.status_label = <<"Error: ">> \o e
    /\ ui.download_button
    /\ \E i \in Threads : "exc" \in DOMAIN threads[i] /\ threads[i].exc \in EngineErrors

\* C6: download_stopped is never emitted while a download thread is inside an
\* engine call.
C6_StoppedOnlyAfterUnwind ==
    \A m \in Emitted : m.sig = "download_stopped" => \A i \in Threads : ~InEngine(i)

\* C7: a refused Start leaves the start and stop controls and the progress
\* indicators as they were.
C7_RefusalChangesNoControl ==
    [][RefusedStart =>
          /\ ui'.download_button = ui.download_button
          /\ ui'.stop_button = ui.stop_button
          /\ ui'.progress_bar = ui.progress_bar
          /\ ui'.speed_label = ui.speed_label
          /\ ui'.eta_label = ui.eta_label]_vars

\* The request of the form has been accepted (MapperSpec: the one click).
Submitted == threads # <<>>

\* C8: "Custom format code..." with an empty custom expression yields the
\* format expression of "Best (video+audio)" for the same widgets.
C8_EmptyCustomIsDefault ==
    (Submitted /\ form.format_combo = CustomLabel /\ form.custom_format_input = <<>>)
    => ydl_opts.format =
          build_ydl_options("Best (video+audio)", output_path_of(form),
                            options_of(form)).format

\* The post-steps of the configuration.
PostSteps == {ydl_opts.postprocessors[k] : k \in 1..Len(ydl_opts.postprocessors)}

ChosenContainer == IF form.remux_combo = "Default" THEN "mp4" ELSE form.remux_combo

\* C9: an audio-only label yields an audio-extraction post-step with the
\* chosen codec and quality; any other label yields a video-conversion
\* post-step to the chosen container, except that with a remux target other
\* than "Default" there is no conversion step and remuxing to the target is
\* requested.
C9_PostStepSelection ==
    Submitted =>
        IF form.format_combo = "Best audio only"
        THEN [key              |-> "FFmpegExtractAudio",
              preferredcodec   |-> form.audio_format_combo,
              preferredquality |-> Str(form.audio_quality_slider)] \in PostSteps
        ELSE IF form.remux_combo = "Default"
        THEN [key |-> "FFmpegVideoConvertor", preferedformat |-> ChosenContainer]
                 \in PostSteps
        ELSE /\ \A s \in PostSteps : s.key # "FFmpegVideoConvertor"
             /\ Has(ydl_opts, "remuxvideo")
             /\ ydl_opts.remuxvideo = form.remux_combo

\* C10 as stated: with the playlist box as constructed the configuration is
\* single-item only, and only with the box changed is it not.
C10_PlaylistOffByDefault ==
    Submitted => (ydl_opts.noplaylist = (form.playlist_check = PlaylistCheckDefault))

\* C10, amended: the playlist box is constructed checked; noplaylist is the
\* negation of the box, so a request submitted with the box as constructed
\* yields noplaylist = False and only an unchecked box yields True.
C10_PlaylistFollowsBox ==
    Submitted =>
        /\ ydl_opts.noplaylist = ~form.playlist_check
        /\ form.playlist_check = PlaylistCheckDefault => ~ydl_opts.noplaylist

\* A request submitted with the playlist box as constructed.
C10_Witness ==
    /\ Submitted
    /\ form.playlist_check = PlaylistCheckDefault
    /\ ydl_opts.noplaylist = FALSE

\* C11: cleanup always returns.  With a download thread alive it requests
\* cancellation and waits in the join, which returns (the window closes)
\* whether or not the thread has ended; with none alive it returns at once,
\* sets no flag and emits nothing.
C11_CleanupTerminates ==
    /\ (ui_pc = "joining") ~> (ui_pc = "closed")
    /\ [][/\ (Busy /\ CloseWindow) => (stop_flag' /\ ui_pc' = "joining")
          /\ (~Busy /\ CloseWindow) =>
                (ui_pc' = "closed" /\ emitted' = <<>> /\ UNCHANGED <<stop_flag, ui, queue>>)
          /\ (ui_pc = "joining" /\ ui_pc' # "joining") => ui_pc' = "closed"]_vars

\* cleanup has returned and the download thread is still inside the engine.
C11_Witness ==
    /\ ui_pc = "closed"
    /\ stop_flag
    /\ \E i \in Threads : InEngine(i)

ProgressSigs == {"progress_updated", "speed_updated", "eta_updated"}

CancelText == <<"Download stopped by user">>

\* C12: the cancellation flag goes from set to clear only in an accepted
\* Start, taken when no download thread is alive; so while a thread is alive
\* a set flag stays set, no step taken with the flag set emits a progress,
\* speed or ETA signal, and a progress callback made with the flag set ends
\* the engine call with the cancellation exception.
C12_CancelNeverLost ==
    [][/\ (stop_flag /\ ~stop_flag') =>
             /\ AliveThreads = {}
             /\ download_thread' \in DOMAIN threads'
             /\ threads'[download_thread'].pc = "started"
       /\ (stop_flag /\ AliveThreads # {}) => stop_flag'
       /\ stop_flag => \A k \in 1..Len(emitted') : emitted'[k].sig \notin ProgressSigs
       /\ \A i \in Threads, p \in ProgressEvents :
             (stop_flag /\ W_ProgressHook(i, p))
             => /\ threads'[i].pc = "exiting"
                /\ threads'[i].exc = CancelText]_vars

\* A progress callback made after a Cancel has aborted the download, the flag
\* still set.
C12_Witness ==
    /\ stop_flag
    /\ \E i \in Threads : "exc" \in DOMAIN threads[i] /\ threads[i].exc = CancelText
    /\ \E m \in Emitted : m.sig = "download_complete" /\ m.message = CancelText

TerminalSigs == {"download_complete", "download_stopped"}

\* C13: the start control never stays disabled.  Whenever it is disabled
\* (and the window is open) something is left that enables it again without
\* the user: a download thread that has yet to emit its terminal signal, or a
\* terminal signal queued for the UI thread.
C13_NeverLocked ==
    (ui_pc = "idle" /\ ~ui.download_button)
    => \/ \E i \in Threads : threads[i].pc \in {"started", "extract", "download"}
       \/ \E k \in 1..Len(queue) : queue[k].sig \in TerminalSigs

====
